---- MODULE Spec2Model ----
(***************************************************************************)
(* tcloud-assets-include (src/src/lib.rs): a build-time asset pipeline.    *)
(* include() records two write-once lists (OTHER_EXTENSIONS, NO_MANGLE)    *)
(* and walks a source directory, mirroring it below OUT_DIR: web files are *)
(* minified, files with a registered ending are copied, the rest ignored.  *)
(*                                                                         *)
(* Strings are sequences of one-character strings, a path is a sequence of *)
(* components, a file system is a function from paths to nodes.            *)
(***************************************************************************)
EXTENDS Naturals, Sequences, FiniteSets

VARIABLES
    src,               \* the source file system: path -> node
    readonly,          \* destination paths that cannot be created or written
    env,               \* the OUT_DIR environment variable
    OTHER_EXTENSIONS,  \* OnceLock<Vec<&str>>
    NO_MANGLE,         \* OnceLock<Vec<&str>>
    dst,               \* the destination file system: path -> entry
    stack,             \* the active handle_directory calls, innermost last
    pc,                \* "idle" | "walk" | "done" | "panic"
    panicMsg,          \* the message of the panic that ended the run
    run,               \* number of include() calls started
    args,              \* the path argument of the running include()
    handled,           \* history: source file -> what handle_file did with it
    made,              \* history: source directory -> the directory created for it
    errors,            \* history: source paths at which a file system error was met
    snap,              \* history: destination and configuration after the first run
    tpc,               \* per thread: "idle" | "check" | "set" | "panic"
    tfld,              \* per thread: the store its current call is about
    targ,              \* per thread: the list its current call was given
    tres,              \* per thread: outcome of its last completed call
    tpre               \* per thread: was the store set when the call was made

walkVars == <<src, readonly, env, dst, stack, pc, panicMsg, run, args, handled, made, errors, snap>>
threadVars == <<tpc, tfld, targ, tres, tpre>>
vars == <<src, readonly, env, OTHER_EXTENSIONS, NO_MANGLE, dst, stack, pc, panicMsg, run, args,
          handled, made, errors, snap, tpc, tfld, targ, tres, tpre>>

----------------------------------------------------------------------------
(* Bounds *)

MaxRuns == 2
NumThreads == 2

----------------------------------------------------------------------------
(* Strings *)

DotCss == <<".", "c", "s", "s">>
DotJs == <<".", "j", "s">>
DotHtml == <<".", "h", "t", "m", "l">>
DotBin == <<".", "b">>
Slash == <<"/">>
DotDot == <<".", ".">>

\* str::ends_with
EndsWith(s, suffix) ==
    /\ Len(suffix) <= Len(s)
    /\ SubSeq(s, Len(s) - Len(suffix) + 1, Len(s)) = suffix

\* Vec::contains
Contains(list, x) == \E i \in 1..Len(list) : list[i] = x

\* PathBuf::to_str / display: the components joined by the separator
RECURSIVE PathStr(_)
PathStr(path) ==
    IF Len(path) = 0 THEN <<>>
    ELSE IF Len(path) = 1 THEN path[1]
    ELSE PathStr(SubSeq(path, 1, Len(path) - 1)) \o Slash \o path[Len(path)]

\* Path::file_name: the last component, None when the path ends in ".."
None == [some |-> FALSE, val |-> <<>>]
Some(v) == [some |-> TRUE, val |-> v]

FileName(path) ==
    IF Len(path) = 0 \/ path[Len(path)] = DotDot THEN None
    ELSE Some(path[Len(path)])

\* PathBuf::push of one relative component
Push(path, name) == Append(path, name)

Parent(path) == SubSeq(path, 1, Len(path) - 1)

IsPrefix(p, q) == Len(p) <= Len(q) /\ SubSeq(q, 1, Len(p)) = p

----------------------------------------------------------------------------
(* Configuration store *)

Unset == [set |-> FALSE, val |-> <<>>]
Stored(list) == [set |-> TRUE, val |-> list]

\* the guard of set_nomangle and of set_other_extensions
ShouldSetNoCheck(list, store) == list # <<>>
ShouldSet(list, store) == list # <<>> /\ ~store.set

\* the whole setter, run by one thread alone: OnceLock::set succeeds
SetOnce(list, store) == IF ShouldSet(list, store) THEN Stored(list) ELSE store

CheckNomangleSuffix(file) ==
    IF NO_MANGLE.set
    THEN \E i \in 1..Len(NO_MANGLE.val) : EndsWith(file, NO_MANGLE.val[i])
    ELSE FALSE
CheckNomangle(file) ==
    IF NO_MANGLE.set THEN Contains(NO_MANGLE.val, file) ELSE FALSE

CheckExtension(file) ==
    IF OTHER_EXTENSIONS.set
    THEN \E i \in 1..Len(OTHER_EXTENSIONS.val) : EndsWith(file, OTHER_EXTENSIONS.val[i])
    ELSE FALSE

\* get_filename: the last component of the path
GetFilename(path) == path[Len(path)]

----------------------------------------------------------------------------
(* File systems *)

NoData == [tag |-> "none", of |-> "", mangle |-> FALSE, partial |-> FALSE]
DirEntry == [kind |-> "dir", data |-> NoData]
FileEntry(data) == [kind |-> "file", data |-> data]

EmptyFs == [p \in {} |-> DirEntry]

Prefixes(p) == {SubSeq(p, 1, k) : k \in 1..Len(p)}

DirExists(fs, p) == Len(p) = 0 \/ (p \in DOMAIN fs /\ fs[p].kind = "dir")

\* fs::create_dir: fails when the directory exists or its parent does not
CreateDir(fs, p) ==
    IF p \notin DOMAIN fs /\ DirExists(fs, Parent(p)) /\ p \notin readonly
    THEN [ok |-> TRUE, fs |-> [q \in DOMAIN fs \cup {p} |-> IF q = p THEN DirEntry ELSE fs[q]]]
    ELSE [ok |-> FALSE, fs |-> fs]

\* create_dir_all of the parent directory only
CreateDirAllOfParent(fs, p) ==
    LET d == Parent(p)
        missing == {q \in Prefixes(d) : q \notin DOMAIN fs}
    IN  IF /\ \A q \in Prefixes(d) : q \in DOMAIN fs => fs[q].kind = "dir"
           /\ missing \cap readonly = {}
        THEN [ok |-> TRUE,
              fs |-> [q \in DOMAIN fs \cup missing |-> IF q \in missing THEN DirEntry ELSE fs[q]]]
        ELSE [ok |-> FALSE, fs |-> fs]

\* fs::create_dir_all: creates the directory and every missing ancestor, and
\* accepts the ones that exist
CreateDirAll(fs, p) ==
    LET missing == {q \in Prefixes(p) : q \notin DOMAIN fs}
    IN  IF /\ \A q \in Prefixes(p) : q \in DOMAIN fs => fs[q].kind = "dir"
           /\ missing \cap readonly = {}
        THEN [ok |-> TRUE,
              fs |-> [q \in DOMAIN fs \cup missing |-> IF q \in missing THEN DirEntry ELSE fs[q]]]
        ELSE [ok |-> FALSE, fs |-> fs]

\* fs::write: creates the file or replaces its content; the directory must exist
Write(fs, p, data) ==
    IF /\ DirExists(fs, Parent(p))
       /\ p \in DOMAIN fs => fs[p].kind = "file"
       /\ p \notin readonly
    THEN [ok |-> TRUE,
          fs |-> [q \in DOMAIN fs \cup {p} |-> IF q = p THEN FileEntry(data) ELSE fs[q]]]
    ELSE [ok |-> FALSE, fs |-> fs]

\* fs::read_to_string: the file must be readable and hold UTF-8
ReadToString(node) == node.fault \notin {"read", "binary"}

\* fs::copy: the bytes of the source, whatever they are
Copy(fs, node, p) ==
    IF node.fault # "read"
    THEN Write(fs, p, [tag |-> "raw", of |-> node.data, mangle |-> FALSE, partial |-> FALSE])
    ELSE [ok |-> FALSE, fs |-> fs]

\* fs::read_dir: the paths of the entries of a directory
Children(fs, d) == {p \in DOMAIN fs : Len(p) = Len(d) + 1 /\ IsPrefix(d, p)}

----------------------------------------------------------------------------
(* Minifiers: the libraries are deterministic functions of the text *)

\* minify_css panics on text that is no style sheet
MinifyCssOk(node) == node.fault # "syntax"
MinifyCss(node) == [tag |-> "css", of |-> node.data, mangle |-> FALSE, partial |-> FALSE]

\* minify_js takes the program of the parser's return and never reads its errors
MinifyJs(path, node) ==
    [tag |-> "js", of |-> node.data, mangle |-> ~CheckNomangle(GetFilename(path)),
     partial |-> node.fault = "syntax"]

\* minify_html: the minifier accepts any text; the text it is given is UTF-8
\* (read_to_string), so the from_utf8 of its output is not modelled as failing
MinifyHtml(node) == [tag |-> "html", of |-> node.data, mangle |-> FALSE, partial |-> FALSE]

----------------------------------------------------------------------------
(* handle_file *)

NoMsg == [what |-> "", path |-> <<>>]
Msg(what, path) == [what |-> what, path |-> path]

VerdictCssFirst(file) ==
    LET path == PathStr(file)
    IN  IF EndsWith(path, DotCss) THEN "css"
        ELSE IF CheckExtension(GetFilename(file)) THEN "copy"
        ELSE IF EndsWith(path, DotJs) THEN "js"
        ELSE IF EndsWith(path, DotHtml) THEN "html"
        ELSE "ignore"
VerdictCopyRest(file) ==
    LET path == PathStr(file)
    IN  IF CheckExtension(GetFilename(file)) THEN "copy"
        ELSE IF EndsWith(path, DotCss) THEN "css"
        ELSE IF EndsWith(path, DotJs) THEN "js"
        ELSE IF EndsWith(path, DotHtml) THEN "html"
        ELSE "copy"
\* the branch handle_file takes
Verdict(file) ==
    LET path == PathStr(file)
    IN  IF CheckExtension(GetFilename(file)) THEN "copy"
        ELSE IF EndsWith(path, DotCss) THEN "css"
        ELSE IF EndsWith(path, DotJs) THEN "js"
        ELSE IF EndsWith(path, DotHtml) THEN "html"
        ELSE "ignore"

Outcome(how, fsErr, msg, wrote, to, fs) ==
    [how |-> how, fsErr |-> fsErr, panic |-> msg # NoMsg, msg |-> msg,
     wrote |-> wrote, to |-> to, fs |-> fs]

\* what handle_file(file, out_dir) does to the destination
HandleFileResult(file, out_dir) ==
    LET path == PathStr(file)
        node == src[file]
        how == Verdict(file)
        new_file_path == Push(out_dir, FileName(file).val)
    IN  IF how = "copy"
        THEN LET c == Copy(dst, node, new_file_path)
             IN  IF c.ok THEN Outcome(how, FALSE, NoMsg, TRUE, new_file_path, c.fs)
                 ELSE Outcome(how, TRUE, Msg("copy", path), FALSE, new_file_path, dst)
        ELSE IF how = "ignore"
        THEN Outcome(how, FALSE, NoMsg, FALSE, new_file_path, dst)
        ELSE IF ~ReadToString(node)
        THEN Outcome(how, TRUE, Msg("read", path), FALSE, new_file_path, dst)
        ELSE IF how = "css" /\ ~MinifyCssOk(node)
        THEN Outcome(how, FALSE, Msg("css", path), FALSE, new_file_path, dst)
        ELSE LET minified == IF how = "css" THEN MinifyCss(node)
                             ELSE IF how = "js" THEN MinifyJs(file, node)
                             ELSE MinifyHtml(node)
                 w == Write(dst, new_file_path, minified)
             IN  IF w.ok THEN Outcome(how, FALSE, NoMsg, TRUE, new_file_path, w.fs)
                 ELSE Outcome(how, TRUE, Msg("write", PathStr(new_file_path)), FALSE,
                              new_file_path, dst)

----------------------------------------------------------------------------
(* Inputs: source trees, destinations, lists *)

Root == << <<"w">>, <<"a">> >>
OutDir == << <<"o">> >>

File(rel, data, fault) == [rel |-> rel, kind |-> "file", data |-> data, fault |-> fault]
Dir(rel, fault) == [rel |-> rel, kind |-> "dir", data |-> "", fault |-> fault]
Link(rel) == [rel |-> rel, kind |-> "link", data |-> "", fault |-> "ok"]

A_css == <<"a">> \o DotCss
A_js == <<"a">> \o DotJs
A_html == <<"a">> \o DotHtml
N_js == <<"n">> \o DotJs
AN_js == <<"a", "n">> \o DotJs
X_t == <<"x", ".", "t">>
F_b == <<"f">> \o DotBin
Css == <<"c", "s", "s">>
A_css_b == A_css \o DotBin

\* the layout of the crate's own assets: web files, an ignored file, a nested
\* directory with a registered ending, empty directories
TreeAssets ==
    [nodes |-> {Dir(<<>>, "ok"), File(<<A_css>>, "t1", "ok"), File(<<A_js>>, "t2", "ok"),
                File(<<A_html>>, "t3", "ok"), File(<<X_t>>, "t4", "ok"),
                Dir(<< <<"s">> >>, "ok"), File(<< <<"s">>, F_b >>, "t5", "binary"),
                File(<< <<"s">>, X_t >>, "t6", "ok"), Dir(<< <<"s">>, <<"d">> >>, "ok"),
                Dir(<< <<"e">> >>, "ok")},
     ro |-> {}]

\* names that try the classification and the exemption match
TreeNames ==
    [nodes |-> {Dir(<<>>, "ok"), File(<<AN_js>>, "t1", "ok"),
                Dir(<<N_js>>, "ok"), File(<<N_js, A_js>>, "t1", "ok"),
                File(<<Css>>, "t2", "ok"), File(<<DotCss>>, "t3", "ok"),
                File(<<A_css_b>>, "t4", "ok"), File(<<A_css>>, "t5", "ok"),
                Dir(<< <<"x", ".">> >>, "ok"), File(<< <<"x", ".">>, Css >>, "t6", "ok"),
                File(<< <<"x", ".">>, N_js >>, "t1", "ok")},
     ro |-> {}]

\* entries the walk cannot read or type, and a symbolic link
TreeSkipped ==
    [nodes |-> {Dir(<<>>, "ok"), File(<<A_css>>, "t1", "entry"), File(<<A_js>>, "t2", "type"),
                Link(<< <<"l">> >>), File(<<A_html>>, "t3", "ok"),
                Dir(<< <<"s">> >>, "type"), File(<< <<"s">>, A_css >>, "t4", "ok")},
     ro |-> {}]

\* files and directories whose handling fails
TreeFatal ==
    [nodes |-> {Dir(<<>>, "ok"), File(<<A_css>>, "t1", "read"), File(<<F_b>>, "t2", "read"),
                File(<< <<"v">> \o DotCss >>, "t3", "syntax"), File(<<A_html>>, "t4", "binary"),
                Dir(<< <<"r">> >>, "read"), File(<<A_js>>, "t5", "ok"),
                Dir(<< <<"q">> >>, "ok")},
     ro |-> {OutDir \o <<Root[2], A_js>>, OutDir \o <<Root[2], <<"q">> >>}]

\* JavaScript the parser reports errors for
TreeBadJs ==
    [nodes |-> {Dir(<<>>, "ok"), File(<<A_js>>, "t1", "syntax"), File(<<N_js>>, "t2", "syntax"),
                File(<<A_html>>, "t3", "syntax"), File(<<A_css>>, "t4", "ok")},
     ro |-> {}]

\* a destination root that cannot be created
TreeNoOut ==
    [nodes |-> {Dir(<<>>, "ok"), File(<<A_css>>, "t1", "ok")},
     ro |-> {OutDir, OutDir \o <<Root[2]>>}]

Trees == {TreeAssets, TreeNames, TreeSkipped, TreeFatal, TreeBadJs, TreeNoOut}

MkFs(tree) ==
    [p \in {Root \o n.rel : n \in tree.nodes} |->
        LET n == CHOOSE m \in tree.nodes : Root \o m.rel = p
        IN  [kind |-> n.kind, data |-> n.data, fault |-> n.fault]]

ExtLists == {<<>>, <<DotBin>>, <<DotCss, DotBin>>}
NoMangleLists == {<<>>, <<N_js>>, <<A_js, N_js>>}
Paths == {Root, Root \o <<DotDot>>}

InitialDst == {EmptyFs, [p \in {OutDir} |-> DirEntry]}

NoSnap == [dst |-> EmptyFs, ext |-> Unset, nomangle |-> Unset, args |-> <<>>]
Threads == 1..NumThreads

InitThreads ==
    /\ tpc = [t \in Threads |-> "idle"]
    /\ tfld = [t \in Threads |-> "ext"]
    /\ targ = [t \in Threads |-> <<>>]
    /\ tres = [t \in Threads |-> "none"]
    /\ tpre = [t \in Threads |-> FALSE]

InitWalk(trees) ==
    /\ \E tree \in trees : src = MkFs(tree) /\ readonly = tree.ro
    /\ env \in {None, Some(OutDir)}
    /\ dst \in InitialDst
    /\ stack = <<>>
    /\ pc = "idle"
    /\ panicMsg = NoMsg
    /\ run = 0
    /\ args = <<>>
    /\ handled = <<>>
    /\ made = <<>>
    /\ errors = {}
    /\ snap = NoSnap

Init ==
    /\ InitWalk(Trees)
    /\ OTHER_EXTENSIONS = Unset
    /\ NO_MANGLE = Unset
    /\ InitThreads

----------------------------------------------------------------------------
(* handle_directory and include *)

NewDirFlat(directory, out_dir) == out_dir
\* new_dir of handle_directory: out_dir with the directory's own name pushed
NewDir(directory, out_dir) == Push(out_dir, FileName(directory).val)

Frame(directory, out_dir) ==
    [dir |-> directory, new_dir |-> NewDir(directory, out_dir), at |-> "create", todo |-> {}]

Top == stack[Len(stack)]
SetTop(f) == [stack EXCEPT ![Len(stack)] = f]

Panic(msg) ==
    /\ pc' = "panic"
    /\ panicMsg' = msg

\* include(path, other_extensions, no_mangle) up to its call of handle_directory,
\* and that call up to its first file system operation
Include(path, ext, nomangle) ==
    /\ pc \in {"idle", "done"}
    /\ run < MaxRuns
    /\ run' = run + 1
    /\ args' = path
    /\ OTHER_EXTENSIONS' = SetOnce(ext, OTHER_EXTENSIONS)
    /\ NO_MANGLE' = SetOnce(nomangle, NO_MANGLE)
    /\ handled' = <<>>
    /\ made' = <<>>
    /\ errors' = {}
    /\ IF ~env.some
       THEN Panic(Msg("OUT_DIR", <<>>)) /\ stack' = <<>>
       ELSE IF ~FileName(path).some
       THEN Panic(Msg("unwrap", PathStr(path))) /\ stack' = <<>>
       ELSE /\ pc' = "walk"
            /\ panicMsg' = NoMsg
            /\ stack' = <<Frame(path, env.val)>>
    /\ UNCHANGED <<src, readonly, env, dst, snap>>
    /\ UNCHANGED threadVars

\* fs::create_dir_all(&new_dir)
MakeDir ==
    /\ pc = "walk"
    /\ Top.at = "create"
    /\ LET c == CreateDirAll(dst, Top.new_dir)
       IN  IF c.ok
           THEN /\ dst' = c.fs
                /\ stack' = SetTop([Top EXCEPT !.at = "read"])
                /\ made' = [d \in DOMAIN made \cup {Top.dir} |->
                               IF d = Top.dir THEN Top.new_dir ELSE made[d]]
                /\ UNCHANGED <<pc, panicMsg, errors>>
           ELSE /\ Panic(Msg("create", PathStr(Top.dir)))
                /\ errors' = errors \cup {Top.dir}
                /\ UNCHANGED <<dst, stack, made>>
    /\ UNCHANGED <<src, readonly, env, OTHER_EXTENSIONS, NO_MANGLE, run, args, handled, snap>>
    /\ UNCHANGED threadVars

\* fs::read_dir(&directory)
ReadDir ==
    /\ pc = "walk"
    /\ Top.at = "read"
    /\ IF src[Top.dir].fault = "read"
       THEN /\ Panic(Msg("read_dir", PathStr(Top.dir)))
            /\ errors' = errors \cup {Top.dir}
            /\ UNCHANGED stack
       ELSE /\ stack' = SetTop([Top EXCEPT !.at = "loop", !.todo = Children(src, Top.dir)])
            /\ UNCHANGED <<pc, panicMsg, errors>>
    /\ UNCHANGED <<src, readonly, env, OTHER_EXTENSIONS, NO_MANGLE, dst, run, args,
                   handled, made, snap>>
    /\ UNCHANGED threadVars

Rest(e) == SetTop([Top EXCEPT !.todo = Top.todo \ {e}])

\* an entry read_dir yields as an error (dropped by flatten), or whose
\* file_type() fails (the if let has no else)
SkipError ==
    /\ pc = "walk"
    /\ Top.at = "loop"
    /\ \E e \in Top.todo :
          /\ src[e].fault \in {"entry", "type"}
          /\ stack' = Rest(e)
          /\ errors' = errors \cup {e}
    /\ UNCHANGED <<src, readonly, env, OTHER_EXTENSIONS, NO_MANGLE, dst, pc, panicMsg, run,
                   args, handled, made, snap>>
    /\ UNCHANGED threadVars

\* an entry that is neither a directory nor a regular file
SkipOther ==
    /\ pc = "walk"
    /\ Top.at = "loop"
    /\ \E e \in Top.todo :
          /\ src[e].fault \notin {"entry", "type"}
          /\ src[e].kind \notin {"dir", "file"}
          /\ stack' = Rest(e)
    /\ UNCHANGED <<src, readonly, env, OTHER_EXTENSIONS, NO_MANGLE, dst, pc, panicMsg, run,
                   args, handled, made, errors, snap>>
    /\ UNCHANGED threadVars

\* handle_directory(direntry.path(), &new_dir)
EnterDir ==
    /\ pc = "walk"
    /\ Top.at = "loop"
    /\ \E e \in Top.todo :
          /\ src[e].fault \notin {"entry", "type"}
          /\ src[e].kind = "dir"
          /\ stack' = Append(Rest(e), Frame(e, Top.new_dir))
    /\ UNCHANGED <<src, readonly, env, OTHER_EXTENSIONS, NO_MANGLE, dst, pc, panicMsg, run,
                   args, handled, made, errors, snap>>
    /\ UNCHANGED threadVars

\* handle_file(direntry.path(), &new_dir)
HandleFile ==
    /\ pc = "walk"
    /\ Top.at = "loop"
    /\ \E e \in Top.todo :
          /\ src[e].fault \notin {"entry", "type"}
          /\ src[e].kind = "file"
          /\ LET r == HandleFileResult(e, Top.new_dir)
             IN  /\ dst' = r.fs
                 /\ errors' = IF r.fsErr THEN errors \cup {e} ELSE errors
                 /\ IF r.panic
                    THEN Panic(r.msg) /\ UNCHANGED <<stack, handled>>
                    ELSE /\ stack' = Rest(e)
                         /\ handled' = [f \in DOMAIN handled \cup {e} |->
                                          IF f = e
                                          THEN [how |-> r.how, wrote |-> r.wrote, to |-> r.to]
                                          ELSE handled[f]]
                         /\ UNCHANGED <<pc, panicMsg>>
    /\ UNCHANGED <<src, readonly, env, OTHER_EXTENSIONS, NO_MANGLE, run, args, made, snap>>
    /\ UNCHANGED threadVars

\* the loop of handle_directory ends; the outermost call returns to include
Return ==
    /\ pc = "walk"
    /\ Top.at = "loop"
    /\ Top.todo = {}
    /\ stack' = SubSeq(stack, 1, Len(stack) - 1)
    /\ IF Len(stack) = 1
       THEN /\ pc' = "done"
            /\ snap' = IF run = 1
                       THEN [dst |-> dst, ext |-> OTHER_EXTENSIONS, nomangle |-> NO_MANGLE,
                             args |-> args]
                       ELSE snap
       ELSE UNCHANGED <<pc, snap>>
    /\ UNCHANGED <<src, readonly, env, OTHER_EXTENSIONS, NO_MANGLE, dst, panicMsg, run, args,
                   handled, made, errors>>
    /\ UNCHANGED threadVars

Next ==
    \/ \E path \in Paths, ext \in ExtLists, nomangle \in NoMangleLists :
          Include(path, ext, nomangle)
    \/ MakeDir
    \/ ReadDir
    \/ SkipError
    \/ SkipOther
    \/ EnterDir
    \/ HandleFile
    \/ Return

Spec == Init /\ [][Next]_vars

----------------------------------------------------------------------------
(* The setters under threads: the test functions call them from the test   *)
(* harness's threads. The check of get().is_none() and the set() that       *)
(* follows are two steps.                                                   *)

Store(fld) == IF fld = "ext" THEN OTHER_EXTENSIONS ELSE NO_MANGLE

SetStore(fld, v) ==
    IF fld = "ext"
    THEN OTHER_EXTENSIONS' = v /\ UNCHANGED NO_MANGLE
    ELSE NO_MANGLE' = v /\ UNCHANGED OTHER_EXTENSIONS

ListsOf(fld) == IF fld = "ext" THEN ExtLists ELSE NoMangleLists

\* a thread calls set_other_extensions(list) or set_nomangle(list), any
\* number of times
TCall(t, fld, list) ==
    /\ tpc[t] = "idle"
    /\ tpc' = [tpc EXCEPT ![t] = "check"]
    /\ tfld' = [tfld EXCEPT ![t] = fld]
    /\ targ' = [targ EXCEPT ![t] = list]
    /\ tpre' = [tpre EXCEPT ![t] = Store(fld).set]
    /\ UNCHANGED <<tres, OTHER_EXTENSIONS, NO_MANGLE>>
    /\ UNCHANGED walkVars

\* if !list.is_empty() && STORE.get().is_none()
TCheck(t) ==
    /\ tpc[t] = "check"
    /\ IF ShouldSet(targ[t], Store(tfld[t]))
       THEN /\ tpc' = [tpc EXCEPT ![t] = "set"]
            /\ UNCHANGED tres
       ELSE /\ tpc' = [tpc EXCEPT ![t] = "idle"]
            /\ tres' = [tres EXCEPT ![t] = IF targ[t] = <<>> THEN "noop" ELSE "ignored"]
    /\ UNCHANGED <<tfld, targ, tpre, OTHER_EXTENSIONS, NO_MANGLE>>
    /\ UNCHANGED walkVars

\* STORE.set(list).expect("... already initialiazed"): OnceLock::set is Err
\* when the cell is full
TSet(t) ==
    /\ tpc[t] = "set"
    /\ \/ /\ ~Store(tfld[t]).set
          /\ SetStore(tfld[t], Stored(targ[t]))
          /\ tpc' = [tpc EXCEPT ![t] = "idle"]
          /\ tres' = [tres EXCEPT ![t] = "stored"]
       \/ /\ Store(tfld[t]).set
          /\ UNCHANGED <<OTHER_EXTENSIONS, NO_MANGLE>>
          /\ tpc' = [tpc EXCEPT ![t] = "panic"]
          /\ tres' = [tres EXCEPT ![t] = "panic"]
    /\ UNCHANGED <<tfld, targ, tpre>>
    /\ UNCHANGED walkVars

InitT ==
    /\ InitWalk({TreeAssets})
    /\ env = Some(OutDir)
    /\ dst = EmptyFs
    /\ OTHER_EXTENSIONS = Unset
    /\ NO_MANGLE = Unset
    /\ InitThreads

NextT ==
    \/ \E t \in Threads, fld \in {"ext", "nomangle"} :
          \E list \in ListsOf(fld) : TCall(t, fld, list)
    \/ \E t \in Threads : TCheck(t)
    \/ \E t \in Threads : TSet(t)

SpecThreads == InitT /\ [][NextT]_vars

----------------------------------------------------------------------------
(* The claims *)

\* the classification as the specification words it, on the file name alone
SpecClassify(name) ==
    IF OTHER_EXTENSIONS.set
       /\ \E i \in 1..Len(OTHER_EXTENSIONS.val) : EndsWith(name, OTHER_EXTENSIONS.val[i])
    THEN "copy"
    ELSE IF EndsWith(name, DotCss) THEN "css"
    ELSE IF EndsWith(name, DotJs) THEN "js"
    ELSE IF EndsWith(name, DotHtml) THEN "html"
    ELSE "ignore"

\* the path of a source node relative to the source root of the run
Rel(p) == SubSeq(p, Len(args) + 1, Len(p))

\* the mirror of the source root: the destination root with the root's name
Base == Push(env.val, args[Len(args)])

Below(fs, d) == {q \in DOMAIN fs : IsPrefix(d, q)}

ExpectedDirs == {Base \o Rel(p) : p \in {q \in DOMAIN src : src[q].kind = "dir"}}
ExpectedFiles ==
    {Base \o Rel(p) : p \in {q \in DOMAIN src :
        src[q].kind = "file" /\ SpecClassify(q[Len(q)]) # "ignore"}}

TagOf(how) == IF how = "copy" THEN "raw" ELSE how

\* C2: every file handle_file handled took the branch the priority order
\* names for its file name (registered ending, then .css, .js, .html, else
\* ignored), and what was written is the copy or the minified text of that
\* branch; with no list set the first rule matches nothing.
C2_Priority ==
    \A f \in DOMAIN handled :
        /\ handled[f].how = SpecClassify(f[Len(f)])
        /\ handled[f].wrote = (handled[f].how # "ignore")
        /\ handled[f].wrote =>
              /\ dst[handled[f].to].data.tag = TagOf(handled[f].how)
              /\ dst[handled[f].to].data.of = src[f].data
        /\ ~OTHER_EXTENSIONS.set => handled[f].how # "copy"

C2_Witness ==
    /\ OTHER_EXTENSIONS = Stored(<<DotCss, DotBin>>)
    /\ Root \o <<A_css>> \in DOMAIN handled
    /\ handled[Root \o <<A_css>>].how = "copy"
    /\ Root \o <<A_css_b>> \in DOMAIN handled
    /\ Root \o << <<"x", ".">>, Css >> \in DOMAIN handled
    /\ handled[Root \o << <<"x", ".">>, Css >>].how = "ignore"

\* C5 as claimed: a node at relative path r below the source root is written
\* at OUT_DIR/r, a file directly inside the root directly inside OUT_DIR.
C5_Original ==
    \A f \in DOMAIN handled : handled[f].wrote => handled[f].to = env.val \o Rel(f)

\* C5 amended: a node at relative path r below the source root S is written
\* at OUT_DIR/<last component of S>/r.
C5_UnderRootName ==
    /\ \A f \in DOMAIN handled : handled[f].wrote =>
          /\ handled[f].to = Base \o Rel(f)
          /\ handled[f].to \in DOMAIN dst
    /\ \A d \in DOMAIN made : made[d] = Base \o Rel(d)

C5_Witness ==
    /\ Root \o << <<"s">>, F_b >> \in DOMAIN handled
    /\ handled[Root \o << <<"s">>, F_b >>].wrote
    /\ Root \o << <<"s">>, <<"d">> >> \in DOMAIN made
    /\ Root \o <<A_css>> \in DOMAIN handled

\* C6: a minified JavaScript file is mangled exactly when its file name is
\* not equal to an entry of the exemption list; with no list set every one
\* is mangled.
C6_MangleExact ==
    \A f \in DOMAIN handled :
        (handled[f].how = "js" /\ handled[f].wrote) =>
            dst[handled[f].to].data.mangle =
                ~(NO_MANGLE.set /\ \E i \in 1..Len(NO_MANGLE.val) : NO_MANGLE.val[i] = f[Len(f)])

C6_Witness ==
    /\ NO_MANGLE = Stored(<<N_js>>)
    /\ {Root \o <<AN_js>>, Root \o <<N_js, A_js>>, Root \o << <<"x", ".">>, N_js >>}
          \subseteq DOMAIN handled
    /\ dst[handled[Root \o <<AN_js>>].to].data.mangle
    /\ dst[handled[Root \o <<N_js, A_js>>].to].data.mangle
    /\ ~dst[handled[Root \o << <<"x", ".">>, N_js >>].to].data.mangle

SameAsFirstRun ==
    /\ run >= 2
    /\ OTHER_EXTENSIONS = snap.ext
    /\ NO_MANGLE = snap.nomangle
    /\ args = snap.args

C8_ParentFirst ==
    /\ \A i \in 1..Len(stack) :
          stack[i].at # "create" => DirExists(dst, stack[i].new_dir) /\ stack[i].dir \in DOMAIN made
    /\ \A f \in DOMAIN handled : handled[f].wrote =>
          /\ Parent(f) \in DOMAIN made
          /\ DirExists(dst, made[Parent(f)])
          /\ Parent(handled[f].to) = made[Parent(f)]
    /\ \A d \in DOMAIN made : d # args =>
          /\ Parent(d) \in DOMAIN made
          /\ Parent(made[d]) = made[Parent(d)]

C8_Witness ==
    /\ Len(stack) = 3
    /\ stack[3].at = "loop"
    /\ \E f \in DOMAIN handled : handled[f].wrote /\ Len(f) = Len(args) + 2

\* C4 as claimed: every file system error met during the walk ends the run.
C4_AllErrorsFatal == errors # {} => pc = "panic"

\* C9 as claimed: a .js file the parser cannot parse ends the run and gets
\* no output file.
C9_BadJsFatal ==
    \A f \in DOMAIN src :
        (src[f].kind = "file" /\ src[f].fault = "syntax" /\ EndsWith(f[Len(f)], DotJs)
         /\ ~CheckExtension(f[Len(f)])) =>
            /\ f \notin DOMAIN handled
            /\ (pc = "walk" \/ pc = "done") => Base \o Rel(f) \notin DOMAIN dst

\* C3 as claimed: a call with a non-empty list made while the store is set
\* fails.
C3_SecondSetFails ==
    \A t \in Threads :
        (tpc[t] = "idle" /\ tres[t] # "none" /\ targ[t] # <<>> /\ tpre[t]) => tres[t] = "panic"

\* C3 amended: a call with a non-empty list that finds the store set returns
\* without failing and leaves the store as it was (it is silently ignored);
\* a call with an empty list returns and leaves the store as it was; a
\* stored list is never replaced.
C3_SecondSetIgnored ==
    [][/\ \A t \in Threads :
             (tpc[t] = "check" /\ tpc'[t] # "check"
              /\ (targ[t] = <<>> \/ Store(tfld[t]).set)) =>
                 /\ tpc'[t] = "idle"
                 /\ tres'[t] = (IF targ[t] = <<>> THEN "noop" ELSE "ignored")
                 /\ OTHER_EXTENSIONS' = OTHER_EXTENSIONS
                 /\ NO_MANGLE' = NO_MANGLE
       /\ OTHER_EXTENSIONS.set => OTHER_EXTENSIONS' = OTHER_EXTENSIONS
       /\ NO_MANGLE.set => NO_MANGLE' = NO_MANGLE]_vars

C3_Witness ==
    \E t \in Threads :
        /\ tpc[t] = "idle" /\ tres[t] = "ignored" /\ tpre[t]
        /\ Store(tfld[t]).set /\ Store(tfld[t]).val # targ[t]

\* C10 as claimed: under every interleaving of threads that call a setter
\* with a non-empty list, no call panics (a second writer never reaches the
\* "already initialiazed" failure).
C10_NoSetterPanics == \A t \in Threads : tpc[t] # "panic"

====
